---- MODULE Spec2Model ----
(***************************************************************************)
(* SingleWriterQuiescentStateReclamation (src/cpp/qsbr/qsbr.h), the        *)
(* variant of it printed in src/cpp/qsbr/README.txt, and the reader and    *)
(* writer loops of threads_test that drive it.                             *)
(*                                                                         *)
(* One writer thread and NumReaders reader threads.  Every step is one     *)
(* atomic access of the code: a load or store of an AtomicEpoch, a mutex   *)
(* acquisition together with the first access it protects, a release       *)
(* together with the last one.  garbage_ is touched by the writer only.    *)
(***************************************************************************)
EXTENDS Integers, Sequences, FiniteSets, TLC

\* ---- bounds of the model ------------------------------------------------
NumReaders == 2
\* garbage_collect is not called once global_epoch_ has reached MaxEpoch
MaxEpoch == 5
\* strings the writer allocates (random_string) in the free-running writer
MaxObjects == 2
\* iterations of the writer loop of threads_test
MaxIterations == 4

\* width of Epoch in the specification that runs forever
EpochBits == 2

\* Counter objects of the stats library
NumCounters == 2
\* the total of all increments applied to counters
MaxApplied == 2
\* width of Counter::val_ (std::atomic<uint32_t>) and of the sums made of it
CounterBits == 3

\* ---- program constants --------------------------------------------------
\* std::numeric_limits<Epoch>::max(); only ever compared with epochs, so any
\* value above every epoch of the model behaves like 2^64 - 1
\* small_vector<T, N>: the template argument N, the number of appends explored
\* and the largest value appended
N == 2
MaxAppends == 4
MaxValue == 2

\* SomeRequest: the capacity of Vector<Header> and of StringStorage before the
\* heap, the number of headers a request is given, the largest char and the
\* longest string assigned
HeadersN == 2
StringsN == 6
MaxHeaders == 2
MaxChar == 2
MaxStrLen == 1

\* parse_person: the longest path and the largest age a Person has before the call
MaxPathLen == 7
MaxPriorAge == 2
\* Gauge: the threads that assign to the gauge and the greatest value assigned
NumAssigners == 2
MaxGauge == 2
\* validate_name: the greatest number of tags of a name
MaxTags == 3

EpochMax == 2147483647
\* AtomicEpoch global_epoch_{0} (qsbr.h) and global_epoch_{1} (README.txt)
InitialEpoch == 0
ReadmeInitialEpoch == 1
\* gc_epoch = gc_epoch - 1 (qsbr.h) and constexpr auto kMagic = 128 (README.txt)
kLag == 1
kMagic == 128
\* for (++iter; ...): the position the reader scan starts from
FirstScanned == 2

Readers == 1..NumReaders
Writer == NumReaders + 1
\* readers_lock_ when no thread holds it
Unlocked == 0
\* the string the map slot holds before the writer's first exchange; the
\* writer's strings are numbered after it, and 0 stands for no pointer held
InitialObject == 1

VARIABLES
  global_epoch_,   \* AtomicEpoch global_epoch_
  readers_lock_,   \* std::mutex readers_lock_: Unlocked or the holding thread
  readers_,        \* std::list<Reader> readers_, front first; a node is named by its thread
  local_,          \* Reader::local_ of each thread's node
  garbage_,        \* std::deque<Trash> garbage_, front first
  map,             \* the slot of threads_test's map that the threads work on
  destroyed,       \* the strings whose destructor has run
  allocated,       \* number of random_string() calls of the writer
  rpc,             \* each reader thread's position
  loaded,          \* on_quiesce: the value global_.load() returned, not yet stored
  ptr,             \* reader lambda: the pointer map[idx].load() returned
  wpc,             \* the writer's position
  prev,            \* writer lambda: std::string* prev
  global_epoch,    \* garbage_collect: Epoch global_epoch
  gc_epoch,        \* garbage_collect: Epoch gc_epoch / min_quiesced_epoch: Epoch min
  iter,            \* min_quiesced_epoch: position of iter in readers_ (end is Len + 1)
  call,            \* history: the registry as it was when garbage_collect was called
  began,           \* history: global_epoch_ when each reader's create_reader took the lock
  completed,       \* history: number of garbage_collect calls that have returned
  counters,        \* StatsSystem::counters: name -> vector of Counter* (empty: no entry)
  dead_counters,   \* StatsSystem::dead_counters: a map from some names to uint32_t
  val_,            \* Counter::val_ of each Counter object
  cstate,          \* where each Counter object is in its life
  movefrom,        \* Counter(Counter&& c): the object c a constructor is moving from
  moving,          \* Counter(Counter&& c): the value c.drain() returned, not yet added
  delivered,       \* the Client::count calls of the latest emit(), in order
  applied,         \* history: per name, the total of all ++ and += applied
  since,           \* history: per name, the increments applied since the latest emit()
  fatal,           \* whether fatal_error_handler has been called (it aborts by default)
  size_,           \* small_vector::size_
  data_,           \* small_vector::data_: the variant, holding the array or the vector
  pushed,          \* history: the values appended to the small_vector, in order
  req,             \* run(): the SomeRequest that is written (headers and strings_)
  bytes,           \* run(): std::vector<uint8_t> bytes
  req_read,        \* run(): the fresh SomeRequest that read_item fills
  assigned,        \* history: the name and value assigned to each header of req
  ipc,             \* run(): how far it has come
  txt,             \* run_parse: std::string_view txt
  person,          \* run_parse: Person p
  ok,              \* run_parse: bool ok as "true" or "false", "none" before the call returns
  prior,           \* history: the Person as it was before the call
  gauge_val_,      \* Gauge::val_ of one Gauge object
  max_,            \* Gauge::max_ of that object
  apc,             \* each assigning thread's position in Gauge::operator=
  assign_v,        \* operator=: the argument v of each assigning thread
  prev_max,        \* update_max: uint32_t prev of each assigning thread
  dpc,             \* the publisher's position in Gauge::drain
  drain_read,      \* drain: the value read() returned, not yet exchanged
  held,            \* history: the value val_ has held all through this publish cycle
  stat_name,       \* validate_name: const std::string& name
  tags_left,       \* check_tags: std::string_view tags, what is left of it
  vpc,             \* how far validate_name has come
  called,          \* whether validate_name has called fatal_error_handler
  handler          \* what the installed fatal_error_handler does: abort or return

vars == <<global_epoch_, readers_lock_, readers_, local_, garbage_, map, destroyed,
          allocated, rpc, loaded, ptr, wpc, prev, global_epoch, gc_epoch, iter, call,
          began, completed, counters, dead_counters, val_, cstate, movefrom, moving,
          delivered, applied, since, fatal, size_, data_, pushed, req, bytes, req_read,
          assigned, ipc, txt, person, ok, prior, gauge_val_, max_, apc, assign_v, prev_max,
          dpc, drain_read, held, stat_name, tags_left, vpc, called, handler>>

qsbrVars == <<global_epoch_, readers_lock_, readers_, local_, garbage_, map, destroyed,
              allocated, rpc, loaded, ptr, wpc, prev, global_epoch, gc_epoch, iter, call,
              began, completed>>
statsVars == <<counters, dead_counters, val_, cstate, movefrom, moving, delivered,
               applied, since, fatal>>

vecVars == <<size_, data_, pushed>>
ipcVars == <<req, bytes, req_read, assigned, ipc>>
parserVars == <<txt, person, ok, prior>>
gaugeVars == <<gauge_val_, max_, apc, assign_v, prev_max, dpc, drain_read, held>>
nameVars == <<stat_name, tags_left, vpc, called, handler>>
libVars == <<vecVars, ipcVars, parserVars, gaugeVars, nameVars>>

readerVars == <<rpc, loaded, ptr, began>>
writerVars == <<wpc, prev, global_epoch, gc_epoch, iter, call, completed>>
heapVars == <<map, destroyed, allocated>>

Min(a, b) == IF a < b THEN a ELSE b

Registered == {readers_[i] : i \in 1..Len(readers_)}

\* the minimum of the stored epochs of all registered readers (EpochMax if none)
RECURSIVE MinOver(_)
MinOver(S) ==
  IF S = {} THEN EpochMax
  ELSE LET r == CHOOSE x \in S : TRUE IN Min(local_[r], MinOver(S \ {r}))

NoCall == [n |-> 0, min |-> 0]
AtCall == [n |-> Len(readers_), min |-> MinOver(Registered)]

\* ---- stats: names ---------------------------------------------------------

\* A stat name is a sequence of characters; positions count from 1 and npos
\* is the position std::string::find returns when there is none.
npos == 0

\* the names the Counter objects are constructed with: a plain name and a
\* name with a tag
PlainName == <<"n">>
TaggedName == <<"n", "#", "t", ":", "v">>
TotalName == <<"n", ".", "t", "o", "t", "a", "l">>
StatNames == {PlainName, TaggedName, TotalName}

Counters == 1..NumCounters
CounterModulus == 2 ^ CounterBits

\* a std::map<std::string, uint32_t> with no entry
EmptyMap == [n \in {} |-> 0]

StatsInit ==
  /\ counters = [n \in StatNames |-> << >>]
  /\ dead_counters = EmptyMap
  /\ val_ = [c \in Counters |-> 0]
  /\ cstate = [c \in Counters |-> "none"]
  /\ movefrom = [c \in Counters |-> 0]
  /\ moving = [c \in Counters |-> 0]
  /\ delivered = << >>
  /\ applied = [n \in StatNames |-> 0]
  /\ since = [n \in StatNames |-> 0]
  /\ fatal = FALSE

\* T{}: a value-initialised element
DefaultValue == 0

\* *this: the small_vector the client appends to
this == [size_ |-> size_, data_ |-> data_]

\* a default-constructed small_vector<T, cap>, dflt being T{}
small_vector(cap, dflt) ==
  [size_ |-> 0, data_ |-> [kind |-> "stack", d |-> [i \in 1..cap |-> dflt]]]

is_stack(sv) == sv.data_.kind = "stack"

\* operator[](offset): d[offset] of whichever alternative data_ holds
Index(sv, offset) == sv.data_.d[offset + 1]

At(offset) == Index(this, offset)

\* back(): d[size_] of whichever alternative data_ holds
back == Index(this, size_)

\* convert_to_heap: a vector built from s.begin() to s.end(), all N elements
\* of the array
convert_to_heap(sv) == sv.data_.d

\* emplace_back(v) on sv, a small_vector<T, cap>: the vector afterwards
emplace(cap, sv, v) ==
  LET n == sv.size_
      size == sv.size_ + 1
  IN [size_ |-> size,
      data_ |-> IF is_stack(sv) /\ size < cap
                THEN [sv.data_ EXCEPT !.d[n + 1] = v]
                ELSE IF is_stack(sv)
                THEN [kind |-> "heap", d |-> Append(convert_to_heap(sv), v)]
                ELSE [sv.data_ EXCEPT !.d = Append(@, v)]]

\* Header{}: both StringPtr hold offset_{} = 0
NoHeader == [name |-> 0, value |-> 0]

\* SomeRequest req: SerializedType() pushes the '\0' that a default-constructed
\* StringPtr resolves to; providers stays empty throughout
SomeRequest ==
  [headers |-> small_vector(HeadersN, NoHeader),
   strings_ |-> emplace(StringsN, small_vector(StringsN, 0), 0)]

IpcInit ==
  /\ req = SomeRequest
  /\ bytes = << >>
  /\ req_read = SomeRequest
  /\ assigned = << >>
  /\ ipc = "build"

\* a default-constructed small_vector: size_{0}, and the variant holds a
\* value-initialised std::array<T, N>
VecInit ==
  /\ size_ = 0
  /\ data_ = [kind |-> "stack", d |-> [i \in 1..N |-> DefaultValue]]
  /\ pushed = << >>

\* the threads that assign to the Gauge and the values they assign
Assigners == 1..NumAssigners
GaugeValues == 0..MaxGauge

\* held when the gauge has not kept one value all through the cycle
Varied == -1

\* Gauge: std::atomic<uint32_t> max_{0}, val_{0}; nobody is inside a call
GaugeInit ==
  /\ gauge_val_ = 0
  /\ max_ = 0
  /\ apc = [t \in Assigners |-> "idle"]
  /\ assign_v = [t \in Assigners |-> 0]
  /\ prev_max = [t \in Assigners |-> 0]
  /\ dpc = "idle"
  /\ drain_read = 0
  /\ held = 0

LibInit == VecInit /\ IpcInit /\ GaugeInit

\* validate_name has not been given a name
NameIdle ==
  /\ stat_name = << >>
  /\ tags_left = << >>
  /\ vpc = "idle"
  /\ called = FALSE
  /\ handler = "abort"

\* the path alphabet: the delimiter, a letter and a digit
PathChars == {"/", "a", "1"}
Paths == UNION {[1..k -> PathChars] : k \in 0..MaxPathLen}

\* class Person: empty names, uint32_t age_{2}
DefaultAge == 2
Person(age) == [first_name_ |-> << >>, last_name_ |-> << >>, age_ |-> age]

\* run_parse has not been given a text
ParserIdle ==
  /\ txt = << >>
  /\ person = Person(DefaultAge)
  /\ ok = "none"
  /\ prior = Person(DefaultAge)

CoreInit ==
  /\ global_epoch_ = InitialEpoch
  /\ readers_lock_ = Unlocked
  /\ readers_ = << >>
  /\ local_ = [r \in Readers |-> 0]
  /\ garbage_ = << >>
  /\ map = InitialObject
  /\ destroyed = {}
  /\ allocated = 0
  /\ rpc = [r \in Readers |-> "idle"]
  /\ loaded = [r \in Readers |-> 0]
  /\ ptr = [r \in Readers |-> 0]
  /\ wpc = "idle"
  /\ prev = 0
  /\ global_epoch = 0
  /\ gc_epoch = 0
  /\ iter = 0
  /\ call = NoCall
  /\ began = [r \in Readers |-> 0]
  /\ completed = 0
  /\ StatsInit
  /\ LibInit

Init == CoreInit /\ ParserIdle /\ NameIdle

\* parse_person is about to be called with any path and any Person
InitParser ==
  /\ CoreInit
  /\ txt \in Paths
  /\ person \in {Person(age) : age \in 0..MaxPriorAge}
  /\ ok = "none"
  /\ prior = person
  /\ NameIdle

\* ---- Reader ---------------------------------------------------------------

\* Reader::current_epoch
current_epoch(r) == local_[r]

\* faulty variant: the reader records the epoch after the one it loaded
global_load_ahead == global_epoch_ + 1

\* the value on_quiesce takes from global_.load()
global_load == global_epoch_

\* faulty variant: create_reader without its lock_guard
CreateReaderLockNoting_no_guard(r, e) ==
  /\ wpc # "aborted"
  /\ rpc[r] = "idle"
  /\ readers_lock_' = r
  /\ loaded' = [loaded EXCEPT ![r] = global_load]
  /\ rpc' = [rpc EXCEPT ![r] = "ctor"]
  /\ began' = [began EXCEPT ![r] = e]
  /\ UNCHANGED <<statsVars, libVars, global_epoch_, readers_, local_, garbage_, ptr, heapVars, writerVars>>

\* create_reader up to the load of Reader's constructor: lock_guard, then
\* emplace_front constructs the node, whose constructor calls on_quiesce; e is
\* what the history keeps of the counter at this moment
CreateReaderLockNoting(r, e) ==
  /\ wpc # "aborted"
  /\ rpc[r] = "idle"
  /\ readers_lock_ = Unlocked
  /\ readers_lock_' = r
  /\ loaded' = [loaded EXCEPT ![r] = global_load]
  /\ rpc' = [rpc EXCEPT ![r] = "ctor"]
  /\ began' = [began EXCEPT ![r] = e]
  /\ UNCHANGED <<statsVars, libVars, global_epoch_, readers_, local_, garbage_, ptr, heapVars, writerVars>>

CreateReaderLock(r) == CreateReaderLockNoting(r, global_epoch_)

\* faulty variant: the constructor without its on_quiesce
CreateReaderDone_no_quiesce(r) ==
  /\ wpc # "aborted"
  /\ rpc[r] = "ctor"
  /\ readers_' = <<r>> \o readers_
  /\ readers_lock_' = Unlocked
  /\ loaded' = [loaded EXCEPT ![r] = 0]
  /\ rpc' = [rpc EXCEPT ![r] = "loop"]
  /\ UNCHANGED <<statsVars, libVars, began, local_, global_epoch_, garbage_, ptr, heapVars, writerVars>>

\* the store of the constructor's on_quiesce, the node linked at the front,
\* the handle returned and the lock released
CreateReaderDone(r) ==
  /\ wpc # "aborted"
  /\ rpc[r] = "ctor"
  /\ local_' = [local_ EXCEPT ![r] = loaded[r]]
  /\ readers_' = <<r>> \o readers_
  /\ readers_lock_' = Unlocked
  /\ loaded' = [loaded EXCEPT ![r] = 0]
  /\ rpc' = [rpc EXCEPT ![r] = "loop"]
  /\ UNCHANGED <<statsVars, libVars, began, global_epoch_, garbage_, ptr, heapVars, writerVars>>

\* reader lambda: map[idx].load()
LoadPtr(r) ==
  /\ wpc # "aborted"
  /\ rpc[r] = "loop"
  /\ ptr' = [ptr EXCEPT ![r] = map]
  /\ rpc' = [rpc EXCEPT ![r] = "deref"]
  /\ UNCHANGED <<statsVars, libVars, began, global_epoch_, readers_lock_, readers_, local_, garbage_, loaded,
                 heapVars, writerVars>>

\* reader lambda: ->size() on the loaded pointer
Deref(r) ==
  /\ wpc # "aborted"
  /\ rpc[r] = "deref"
  /\ ptr' = [ptr EXCEPT ![r] = 0]
  /\ rpc' = [rpc EXCEPT ![r] = "on_quiesce"]
  /\ UNCHANGED <<statsVars, libVars, began, global_epoch_, readers_lock_, readers_, local_, garbage_, loaded,
                 heapVars, writerVars>>

\* faulty variant: on_quiesce waits for readers_lock_ to be free
QuiesceLoad_locked(r, at) ==
  /\ wpc # "aborted"
  /\ rpc[r] = at
  /\ readers_lock_ = Unlocked
  /\ loaded' = [loaded EXCEPT ![r] = global_load]
  /\ rpc' = [rpc EXCEPT ![r] = "store"]
  /\ UNCHANGED <<statsVars, libVars, began, global_epoch_, readers_lock_, readers_, local_, garbage_, ptr,
                 heapVars, writerVars>>

\* on_quiesce: global_.load(), called where the reader is at position at
QuiesceLoad(r, at) ==
  /\ wpc # "aborted"
  /\ rpc[r] = at
  /\ loaded' = [loaded EXCEPT ![r] = global_load]
  /\ rpc' = [rpc EXCEPT ![r] = "store"]
  /\ UNCHANGED <<statsVars, libVars, began, global_epoch_, readers_lock_, readers_, local_, garbage_, ptr,
                 heapVars, writerVars>>

\* faulty variant: on_quiesce stores the epoch after the one it loaded
QuiesceStore_next(r) ==
  /\ wpc # "aborted"
  /\ rpc[r] = "store"
  /\ local_' = [local_ EXCEPT ![r] = loaded[r] + 1]
  /\ loaded' = [loaded EXCEPT ![r] = 0]
  /\ rpc' = [rpc EXCEPT ![r] = "loop"]
  /\ UNCHANGED <<statsVars, libVars, began, global_epoch_, readers_lock_, readers_, garbage_, ptr,
                 heapVars, writerVars>>

\* faulty variant: on_quiesce stores the epoch before the one it loaded
QuiesceStore_behind(r) ==
  /\ wpc # "aborted"
  /\ rpc[r] = "store"
  /\ local_' = [local_ EXCEPT ![r] = IF loaded[r] > 0 THEN loaded[r] - 1 ELSE 0]
  /\ loaded' = [loaded EXCEPT ![r] = 0]
  /\ rpc' = [rpc EXCEPT ![r] = "loop"]
  /\ UNCHANGED <<statsVars, libVars, began, global_epoch_, readers_lock_, readers_, garbage_, ptr,
                 heapVars, writerVars>>

\* faulty variant: on_quiesce stores the loaded epoch into every reader's node
QuiesceStore_all(r) ==
  /\ wpc # "aborted"
  /\ rpc[r] = "store"
  /\ local_' = [q \in Readers |-> IF q \in Registered THEN loaded[r] ELSE local_[q]]
  /\ loaded' = [loaded EXCEPT ![r] = 0]
  /\ rpc' = [rpc EXCEPT ![r] = "loop"]
  /\ UNCHANGED <<statsVars, libVars, began, global_epoch_, readers_lock_, readers_, garbage_, ptr,
                 heapVars, writerVars>>

\* on_quiesce: local_ = (the loaded value)
QuiesceStore(r) ==
  /\ wpc # "aborted"
  /\ rpc[r] = "store"
  /\ local_' = [local_ EXCEPT ![r] = loaded[r]]
  /\ loaded' = [loaded EXCEPT ![r] = 0]
  /\ rpc' = [rpc EXCEPT ![r] = "loop"]
  /\ UNCHANGED <<statsVars, libVars, began, global_epoch_, readers_lock_, readers_, garbage_, ptr,
                 heapVars, writerVars>>

\* the reader lambda leaves its loop and the ReaderHandle is destroyed: the
\* deleter takes the lock
DeleterLock(r) ==
  /\ wpc # "aborted"
  /\ rpc[r] = "loop"
  /\ readers_lock_ = Unlocked
  /\ readers_lock_' = r
  /\ rpc' = [rpc EXCEPT ![r] = "dtor"]
  /\ UNCHANGED <<statsVars, libVars, began, global_epoch_, readers_, local_, garbage_, loaded, ptr,
                 heapVars, writerVars>>

\* faulty variant: the deleter removes the front node, whichever it is
DeleterRemove_front(r) ==
  /\ wpc # "aborted"
  /\ rpc[r] = "dtor"
  /\ readers_' = Tail(readers_)
  /\ local_' = [local_ EXCEPT ![Head(readers_)] = 0]
  /\ readers_lock_' = Unlocked
  /\ rpc' = [rpc EXCEPT ![r] = "idle"]
  /\ began' = [began EXCEPT ![r] = 0]
  /\ UNCHANGED <<statsVars, libVars, global_epoch_, garbage_, loaded, ptr, heapVars, writerVars>>

\* the deleter: readers_.remove_if(&e == r), lock released
DeleterRemove(r) ==
  /\ wpc # "aborted"
  /\ rpc[r] = "dtor"
  /\ readers_' = SelectSeq(readers_, LAMBDA x : x # r)
  /\ local_' = [local_ EXCEPT ![r] = 0]
  /\ readers_lock_' = Unlocked
  /\ rpc' = [rpc EXCEPT ![r] = "idle"]
  /\ began' = [began EXCEPT ![r] = 0]
  /\ UNCHANGED <<statsVars, libVars, global_epoch_, garbage_, loaded, ptr, heapVars, writerVars>>

\* the reader lambda of threads_test: create_reader, then load, dereference
\* and on_quiesce in a loop, then the handle's deleter
ReaderLambda(r) ==
  \/ CreateReaderLock(r)
  \/ CreateReaderDone(r)
  \/ LoadPtr(r)
  \/ Deref(r)
  \/ QuiesceLoad(r, "on_quiesce")
  \/ QuiesceStore(r)
  \/ DeleterLock(r)
  \/ DeleterRemove(r)

\* any reader thread: create_reader, any number of on_quiesce calls, the deleter
ReaderStep(r) ==
  \/ CreateReaderLock(r)
  \/ CreateReaderDone(r)
  \/ QuiesceLoad(r, "loop")
  \/ QuiesceStore(r)
  \/ DeleterLock(r)
  \/ DeleterRemove(r)

\* ---- Writer ---------------------------------------------------------------

\* pending_garbage() and generation() (README.txt): readers of the state
pending_garbage == Len(garbage_)
generation == global_epoch_

\* writer lambda: next = random_string(); prev = map[idx].exchange(next)
Exchange(limit) ==
  /\ wpc = "idle"
  /\ allocated < limit
  /\ allocated' = allocated + 1
  /\ map' = InitialObject + allocated + 1
  /\ prev' = map
  /\ wpc' = "retire"
  /\ UNCHANGED <<statsVars, libVars, global_epoch_, readers_lock_, readers_, local_, garbage_, destroyed,
                 readerVars, global_epoch, gc_epoch, iter, call, completed>>

\* faulty variant: destroy_later with emplace_front
destroy_later_front(g) == <<[epoch |-> global_epoch_, item |-> g]>> \o garbage_

\* faulty variant: destroy_later tags with the epoch the next garbage_collect
\* will advance to
destroy_later_advanced(g) == Append(garbage_, [epoch |-> global_epoch_ + 1, item |-> g])

\* faulty variant: destroy_later appends the entry twice
destroy_later_twice(g) ==
  Append(Append(garbage_, [epoch |-> global_epoch_, item |-> g]),
         [epoch |-> global_epoch_, item |-> g])

\* destroy_later: garbage_.emplace_back(Trash{global_epoch_.load(), std::move(g)})
destroy_later(g) == Append(garbage_, [epoch |-> global_epoch_, item |-> g])

DestroyLater(after) ==
  /\ wpc = "retire"
  /\ garbage_' = destroy_later(prev)
  /\ prev' = 0
  /\ wpc' = after
  /\ UNCHANGED <<statsVars, libVars, global_epoch_, readers_lock_, readers_, local_, heapVars,
                 readerVars, global_epoch, gc_epoch, iter, call, completed>>

\* faulty variant: fetch_sub in place of fetch_add
fetch_sub == global_epoch_ - 1

\* faulty variant: fetch_add(2)
fetch_add_two == global_epoch_ + 2

\* global_epoch_.fetch_add(1): the value the counter holds afterwards
fetch_add == global_epoch_ + 1

\* min_quiesced_epoch: auto iter = readers_.begin(); for (++iter; ...).  With
\* readers the scan starts at the second node.  On an empty list begin() is
\* end() and incrementing it is undefined: the circular lists of libstdc++,
\* libc++ and MSVC come back to end(), a checked-iterator build aborts.
ScanBegin ==
  IF Len(readers_) > 0
  THEN iter' = FirstScanned /\ wpc' = "scan"
  ELSE \/ iter' = Len(readers_) + 1 /\ wpc' = "scan"
       \/ iter' = 0 /\ wpc' = "aborted"

\* faulty variant: garbage_collect without its lock_guard
GcLock_no_guard(from) ==
  /\ wpc = from
  /\ global_epoch_ < MaxEpoch
  /\ global_epoch' = global_epoch_
  /\ global_epoch_' = fetch_add
  /\ gc_epoch' = EpochMax
  /\ ScanBegin
  /\ call' = AtCall
  /\ UNCHANGED <<statsVars, libVars, completed, readers_lock_, readers_, local_, garbage_, heapVars, readerVars, prev>>

\* garbage_collect (qsbr.h): lock_guard, fetch_add, and min_quiesced_epoch up
\* to its loop
GcLock(from) ==
  /\ wpc = from
  /\ global_epoch_ < MaxEpoch
  /\ readers_lock_ = Unlocked
  /\ readers_lock_' = Writer
  /\ global_epoch' = global_epoch_
  /\ global_epoch_' = fetch_add
  /\ gc_epoch' = EpochMax
  /\ ScanBegin
  /\ call' = AtCall
  /\ UNCHANGED <<statsVars, libVars, completed, readers_, local_, garbage_, heapVars, readerVars, prev>>

\* min_quiesced_epoch: one turn of the loop, min = std::min(min, iter->current_epoch())
GcScan ==
  /\ wpc = "scan"
  /\ iter <= Len(readers_)
  /\ gc_epoch' = Min(gc_epoch, current_epoch(readers_[iter]))
  /\ iter' = iter + 1
  /\ UNCHANGED <<statsVars, libVars, global_epoch_, readers_lock_, readers_, local_, garbage_, heapVars,
                 readerVars, wpc, prev, global_epoch, call, completed>>

\* faulty variant: the guard without its comparison with the pre-advance epoch
ShouldTrim_no_upper(min, pre) == min > 0

\* faulty variant: the guard lets a minimum equal to the pre-advance epoch in
ShouldTrim_or_equal(min, pre) == min > 0 /\ min <= pre

\* if (gc_epoch > 0 && gc_epoch < global_epoch)
ShouldTrim(min, pre) == min > 0 /\ min < pre

\* if (gc_epoch > kMagic && gc_epoch < global_epoch)
ReadmeShouldTrim(min, pre) == min > kMagic /\ min < pre

\* while (!garbage_.empty() && garbage_.front().epoch < gc_epoch) garbage_.pop_front()
RECURSIVE TrimBelow(_, _)
TrimBelow(q, t) ==
  IF q # << >> /\ Head(q).epoch < t THEN TrimBelow(Tail(q), t) ELSE q

Items(q) == {q[i].item : i \in 1..Len(q)}

\* faulty variant: the trim pops the front entry once, with if for while
Trim_once(should, K) ==
  IF should /\ garbage_ # << >> /\ Head(garbage_).epoch < gc_epoch - K
  THEN /\ garbage_' = Tail(garbage_)
       /\ destroyed' = destroyed \cup {Head(garbage_).item}
  ELSE UNCHANGED <<garbage_, destroyed>>

\* faulty variant: the trim without the lag, up to the minimum itself
Trim_no_lag(should, K) ==
  IF should
  THEN /\ garbage_' = TrimBelow(garbage_, gc_epoch)
       /\ destroyed' = destroyed \cup (Items(garbage_) \ Items(TrimBelow(garbage_, gc_epoch)))
  ELSE UNCHANGED <<garbage_, destroyed>>

\* the trim of garbage_collect with lag K, and nothing else of the writer's
Trim(should, K) ==
  IF should
  THEN /\ garbage_' = TrimBelow(garbage_, gc_epoch - K)
       /\ destroyed' = destroyed \cup (Items(garbage_) \ Items(TrimBelow(garbage_, gc_epoch - K)))
  ELSE UNCHANGED <<garbage_, destroyed>>

\* garbage_collect (qsbr.h) from the end of the scan: the trim, the return and
\* the lock_guard's release; n is the number of calls that have then returned
GcTrimCounting(n) ==
  /\ wpc = "scan"
  /\ iter > Len(readers_)
  /\ Trim(ShouldTrim(gc_epoch, global_epoch), kLag)
  /\ readers_lock_' = Unlocked
  /\ wpc' = "idle"
  /\ global_epoch' = 0
  /\ gc_epoch' = 0
  /\ iter' = 0
  /\ call' = NoCall
  /\ completed' = n
  /\ UNCHANGED <<statsVars, libVars, global_epoch_, readers_, local_, map, allocated, readerVars, prev>>

GcTrim == GcTrimCounting(completed + 1)

\* ---- the variant of README.txt ------------------------------------------------

\* garbage_collect (README.txt): min_quiesced_epoch takes the lock itself
ReadmeGcLock(from) ==
  /\ wpc = from
  /\ global_epoch_ < MaxEpoch
  /\ readers_lock_ = Unlocked
  /\ readers_lock_' = Writer
  /\ gc_epoch' = EpochMax
  /\ ScanBegin
  /\ call' = AtCall
  /\ UNCHANGED <<statsVars, libVars, completed, global_epoch_, readers_, local_, garbage_, heapVars, readerVars,
                 prev, global_epoch>>

\* min_quiesced_epoch returns: its lock_guard is released
ReadmeScanEnd ==
  /\ wpc = "scan"
  /\ iter > Len(readers_)
  /\ readers_lock_' = Unlocked
  /\ wpc' = "fetch_add"
  /\ UNCHANGED <<statsVars, libVars, global_epoch_, readers_, local_, garbage_, heapVars, readerVars,
                 prev, global_epoch, gc_epoch, iter, call, completed>>

\* Epoch global_epoch = global_epoch_.fetch_add(1)
ReadmeFetchAdd ==
  /\ wpc = "fetch_add"
  /\ global_epoch' = global_epoch_
  /\ global_epoch_' = fetch_add
  /\ wpc' = "assert"
  /\ UNCHANGED <<statsVars, libVars, readers_lock_, readers_, local_, garbage_, heapVars, readerVars,
                 prev, gc_epoch, iter, call, completed>>

\* assert(gc_epoch == max || gc_epoch <= global_epoch)
AssertHolds == gc_epoch = EpochMax \/ gc_epoch <= global_epoch

\* the assert, then the trim and the return
ReadmeAssertTrim ==
  /\ wpc = "assert"
  /\ IF AssertHolds
     THEN /\ Trim(ReadmeShouldTrim(gc_epoch, global_epoch), kMagic)
          /\ wpc' = "idle"
          /\ completed' = completed + 1
     ELSE /\ UNCHANGED <<garbage_, destroyed>>
          /\ wpc' = "aborted"
          /\ UNCHANGED completed
  /\ global_epoch' = 0
  /\ gc_epoch' = 0
  /\ iter' = 0
  /\ call' = NoCall
  /\ UNCHANGED <<statsVars, libVars, global_epoch_, readers_lock_, readers_, local_, map, allocated,
                 readerVars, prev>>

InitReadme ==
  /\ global_epoch_ = ReadmeInitialEpoch
  /\ readers_lock_ = Unlocked
  /\ readers_ = << >>
  /\ local_ = [r \in Readers |-> 0]
  /\ garbage_ = << >>
  /\ map = InitialObject
  /\ destroyed = {}
  /\ allocated = 0
  /\ rpc = [r \in Readers |-> "idle"]
  /\ loaded = [r \in Readers |-> 0]
  /\ ptr = [r \in Readers |-> 0]
  /\ wpc = "idle"
  /\ prev = 0
  /\ global_epoch = 0
  /\ gc_epoch = 0
  /\ iter = 0
  /\ call = NoCall
  /\ began = [r \in Readers |-> 0]
  /\ completed = 0
  /\ StatsInit
  /\ LibInit
  /\ ParserIdle
  /\ NameIdle

\* ---- specifications -------------------------------------------------------

\* qsbr.h under any use of its interface: the writer retires and collects in
\* any order
Next ==
  \/ \E r \in Readers : ReaderStep(r)
  \/ Exchange(MaxObjects)
  \/ DestroyLater("idle")
  \/ GcLock("idle")
  \/ GcScan
  \/ GcTrim

Spec == Init /\ [][Next]_vars

\* qsbr.h under threads_test: every turn of the writer loop is exchange,
\* destroy_later, garbage_collect
NextThreadsTest ==
  \/ \E r \in Readers : ReaderLambda(r)
  \/ Exchange(MaxIterations)
  \/ DestroyLater("gc")
  \/ GcLock("gc")
  \/ GcScan
  \/ GcTrim

SpecThreadsTest == Init /\ [][NextThreadsTest]_vars

\* the README.txt variant under any use of its interface
NextReadme ==
  \/ \E r \in Readers : ReaderStep(r)
  \/ Exchange(MaxObjects)
  \/ DestroyLater("idle")
  \/ ReadmeGcLock("idle")
  \/ GcScan
  \/ ReadmeScanEnd
  \/ ReadmeFetchAdd
  \/ ReadmeAssertTrim

SpecReadme == InitReadme /\ [][NextReadme]_vars

\* qsbr.h run forever.  Epoch is uint64_t and fetch_add wraps, so the counter
\* is kept at its width, here EpochBits bits, and garbage_collect can always be
\* called; numeric_limits<Epoch>::max() is the all-ones value of that width.
EpochModulus == 2 ^ EpochBits
fetch_add_wrapping == (global_epoch_ + 1) % EpochModulus

LiveGcLock ==
  /\ wpc = "idle"
  /\ readers_lock_ = Unlocked
  /\ readers_lock_' = Writer
  /\ global_epoch' = global_epoch_
  /\ global_epoch_' = fetch_add_wrapping
  /\ gc_epoch' = EpochModulus - 1
  /\ ScanBegin
  /\ call' = AtCall
  /\ UNCHANGED <<statsVars, libVars, completed, readers_, local_, garbage_, heapVars, readerVars, prev>>

\* the return of garbage_collect, the calls counted at the width of Epoch
LiveGcTrim == GcTrimCounting((completed + 1) % EpochModulus)

\* create_reader with no history kept of the counter
LiveCreateReaderLock(r) == CreateReaderLockNoting(r, 0)

LiveReaderStep(r) ==
  \/ LiveCreateReaderLock(r)
  \/ CreateReaderDone(r)
  \/ QuiesceLoad(r, "loop")
  \/ QuiesceStore(r)
  \/ DeleterLock(r)
  \/ DeleterRemove(r)

NextLive ==
  \/ \E r \in Readers : LiveReaderStep(r)
  \/ Exchange(MaxObjects)
  \/ DestroyLater("idle")
  \/ LiveGcLock
  \/ GcScan
  \/ LiveGcTrim

\* Fairness: a reader that has entered an operation finishes it and a
\* registered reader keeps going round its loop (weak fairness: nothing but
\* the thread's own position enables these steps); the writer finishes the
\* call it is in and, calling garbage_collect again and again, gets the lock
\* whenever it is free infinitely often (strong fairness).
ReaderProgress(r) ==
  \/ CreateReaderDone(r)
  \/ QuiesceLoad(r, "loop")
  \/ QuiesceStore(r)
  \/ DeleterRemove(r)

WriterProgress == DestroyLater("idle") \/ GcScan \/ LiveGcTrim

SpecLive ==
  /\ Init
  /\ [][NextLive]_vars
  /\ \A r \in Readers : WF_vars(ReaderProgress(r))
  /\ WF_vars(WriterProgress)
  /\ SF_vars(LiveGcLock)

\* ---- stats: StatsSystem and Counter -------------------------------------------
\* Every access to the maps of StatsSystem is made under stats_lock, so add,
\* remove and iterate_counters are one step each; Counter::val_ is atomic and
\* is touched outside the lock by ++, += and the move constructor.

\* std::string::find(c)
Find(s, c) ==
  IF \E i \in 1..Len(s) : s[i] = c
  THEN CHOOSE i \in 1..Len(s) : s[i] = c /\ \A j \in 1..(i - 1) : s[j] # c
  ELSE npos

\* the characters of the names, as char values
CharCode(c) ==
  CASE c = "#" -> 35 [] c = "," -> 44 [] c = "." -> 46 [] c = ":" -> 58
    [] c = "a" -> 97 [] c = "l" -> 108 [] c = "n" -> 110 [] c = "o" -> 111
    [] c = "t" -> 116 [] c = "v" -> 118

\* operator< of std::string, the order std::map iterates in
Less(s, t) ==
  \E k \in 1..Len(t) :
    /\ \A j \in 1..(k - 1) : j <= Len(s) /\ s[j] = t[j]
    /\ (k > Len(s) \/ CharCode(s[k]) < CharCode(t[k]))

\* the keys S of a std::map in iteration order
RECURSIVE InOrder(_)
InOrder(S) ==
  IF S = {} THEN << >>
  ELSE LET first == CHOOSE x \in S : \A y \in S : ~Less(y, x)
       IN <<first>> \o InOrder(S \ {first})

\* the entry of counters whose vector holds Counter c (the std::find loops of
\* add(from, to) and remove)
NameOf(c) == CHOOSE n \in StatNames : \E i \in 1..Len(counters[n]) : counters[n][i] = c

\* std::string::rfind(c)
RFind(s, c) ==
  IF \E i \in 1..Len(s) : s[i] = c
  THEN CHOOSE i \in 1..Len(s) : s[i] = c /\ \A j \in (i + 1)..Len(s) : s[j] # c
  ELSE npos

\* validate_name, check_name: whether the name has a space, colon, bar or @
check_name(name) == \E i \in 1..Len(name) : name[i] \in {" ", ":", "|", "@"}

\* validate_name, check_tags: whether it calls fatal_error_handler.
\* split_step cuts at the first comma and leaves the comma at the head of
\* what remains (str.substr(p)), so the turn after a comma sees an empty tag.
RECURSIVE check_tags(_)
check_tags(tags) ==
  IF tags = << >> THEN FALSE
  ELSE LET p == Find(tags, ",")
           tag == IF p # npos THEN SubSeq(tags, 1, p - 1) ELSE tags
           rest == IF p # npos THEN SubSeq(tags, p, Len(tags)) ELSE << >>
           pos == Find(tag, ":")
       IN IF pos = npos THEN TRUE
          ELSE IF check_name(SubSeq(tag, 1, pos - 1)) THEN TRUE
          ELSE IF check_name(SubSeq(tag, pos + 1, Len(tag))) THEN TRUE
          ELSE check_tags(rest)

\* validate_name: whether it calls fatal_error_handler
validate_name(name) ==
  LET pos == Find(name, "#")
  IN IF pos = npos
     THEN check_name(name)
     ELSE check_name(SubSeq(name, 1, pos - 1)) \/ check_tags(SubSeq(name, pos + 1, Len(name)))

\* faulty variant of validate_total: the check of a ".total" name is left out
validate_total_tagged_only(name, existing) ==
  LET tagpos == Find(name, "#")
  IN /\ tagpos # npos
     /\ (SubSeq(name, 1, tagpos - 1) \o <<".", "t", "o", "t", "a", "l">>) \in existing

\* validate_total: whether it calls fatal_error_handler, existing being the
\* keys of the map
validate_total(name, existing) ==
  LET totalpos == RFind(name, ".")
      is_total == totalpos # npos /\ SubSeq(name, totalpos + 1, Len(name)) = <<"t", "o", "t", "a", "l">>
      tagpos == Find(name, "#")
  IN IF tagpos = npos
     THEN LET prefix == (IF totalpos = npos THEN name ELSE SubSeq(name, 1, totalpos - 1)) \o <<"#">>
              above == {k \in existing : Less(prefix, k)}
          IN /\ is_total
             /\ above # {}
             /\ LET it == CHOOSE k \in above : \A o \in above : ~Less(o, k)
                IN Len(it) >= Len(prefix) /\ SubSeq(it, 1, Len(prefix)) = prefix
     ELSE (SubSeq(name, 1, tagpos - 1) \o <<".", "t", "o", "t", "a", "l">>) \in existing

\* add(map, name, item): map[name].push_back(item)
add(n, c) == [counters EXCEPT ![n] = Append(@, c)]

\* the keys of counters
Keys == {n \in StatNames : counters[n] # << >>}

\* Counter::Counter(std::string name): system().add(name, this), which
\* validates the name before the push_back; fatal_error_handler aborts
CounterCtor(c, n) ==
  /\ ~fatal
  /\ cstate[c] = "none"
  /\ IF validate_name(n) \/ validate_total(n, Keys)
     THEN /\ fatal' = TRUE
          /\ UNCHANGED <<counters, val_, cstate>>
     ELSE /\ counters' = add(n, c)
          /\ val_' = [val_ EXCEPT ![c] = 0]
          /\ cstate' = [cstate EXCEPT ![c] = "live"]
          /\ UNCHANGED fatal
  /\ UNCHANGED <<qsbrVars, libVars, dead_counters, movefrom, moving, delivered, applied, since>>

\* the total of all increments applied so far
RECURSIVE SumOver(_, _)
SumOver(f, S) ==
  IF S = {} THEN 0
  ELSE LET x == CHOOSE y \in S : TRUE IN f[x] + SumOver(f, S \ {x})

\* Counter::operator++ (v = 1) and operator+=(v): val_.fetch_add(v)
CounterAdd(c, v) ==
  /\ ~fatal
  /\ cstate[c] = "live"
  /\ SumOver(applied, StatNames) + v <= MaxApplied
  /\ val_' = [val_ EXCEPT ![c] = (@ + v) % CounterModulus]
  /\ applied' = [applied EXCEPT ![NameOf(c)] = @ + v]
  /\ since' = [since EXCEPT ![NameOf(c)] = @ + v]
  /\ UNCHANGED <<qsbrVars, libVars, fatal, counters, dead_counters, cstate, movefrom, moving, delivered>>

\* remove: swap(*it, vec.back()); vec.pop_back()
SwapPop(vec, c) ==
  LET i == CHOOSE k \in 1..Len(vec) : vec[k] = c
  IN [j \in 1..(Len(vec) - 1) |-> IF j = i THEN vec[Len(vec)] ELSE vec[j]]

\* faulty variant: remove assigns the drained value to the entry of save
Save_assign(save, n, v) ==
  IF n \in DOMAIN save
  THEN [save EXCEPT ![n] = v]
  ELSE save @@ (n :> v)

\* remove: save[entry.first] += vec.back()->drain()
Save(save, n, v) ==
  IF n \in DOMAIN save
  THEN [save EXCEPT ![n] = (@ + v) % CounterModulus]
  ELSE save @@ (n :> v)

\* Counter::~Counter(): system().remove(this); an entry whose vector becomes
\* empty is erased
CounterDtor(c) ==
  /\ ~fatal
  /\ cstate[c] = "live"
  /\ \A t \in Counters : movefrom[t] # c
  /\ counters' = [counters EXCEPT ![NameOf(c)] = SwapPop(@, c)]
  /\ dead_counters' = Save(dead_counters, NameOf(c), val_[c])
  /\ val_' = [val_ EXCEPT ![c] = 0]
  /\ cstate' = [cstate EXCEPT ![c] = "none"]
  /\ UNCHANGED <<qsbrVars, libVars, fatal, movefrom, moving, delivered, applied, since>>

\* Counter::Counter(Counter&& from): system().add(&from, this)
CounterMoveRegister(c, from) ==
  /\ ~fatal
  /\ cstate[c] = "none"
  /\ cstate[from] = "live"
  /\ counters' = add(NameOf(from), c)
  /\ val_' = [val_ EXCEPT ![c] = 0]
  /\ movefrom' = [movefrom EXCEPT ![c] = from]
  /\ cstate' = [cstate EXCEPT ![c] = "move_drain"]
  /\ UNCHANGED <<qsbrVars, libVars, fatal, dead_counters, moving, delivered, applied, since>>

\* Counter::Counter(Counter&& from): from.drain()
CounterMoveDrain(c) ==
  /\ ~fatal
  /\ cstate[c] = "move_drain"
  /\ moving' = [moving EXCEPT ![c] = val_[movefrom[c]]]
  /\ val_' = [val_ EXCEPT ![movefrom[c]] = 0]
  /\ cstate' = [cstate EXCEPT ![c] = "move_add"]
  /\ UNCHANGED <<qsbrVars, libVars, fatal, counters, dead_counters, movefrom, delivered, applied, since>>

\* Counter::Counter(Counter&& from): val_ += (the drained value)
CounterMoveAdd(c) ==
  /\ ~fatal
  /\ cstate[c] = "move_add"
  /\ val_' = [val_ EXCEPT ![c] = (@ + moving[c]) % CounterModulus]
  /\ moving' = [moving EXCEPT ![c] = 0]
  /\ movefrom' = [movefrom EXCEPT ![c] = 0]
  /\ cstate' = [cstate EXCEPT ![c] = "live"]
  /\ UNCHANGED <<qsbrVars, libVars, fatal, counters, dead_counters, delivered, applied, since>>

\* iterate_counters: v += item->drain() over the vector of one name (uint32_t)
RECURSIVE DrainAll(_)
DrainAll(vec) ==
  IF vec = << >> THEN 0 ELSE (val_[Head(vec)] + DrainAll(Tail(vec))) % CounterModulus

\* the names that have an entry in counters
LiveNames == {n \in StatNames : counters[n] # << >>}

\* iterate_counters: the calls of cb, first one per entry of counters, then
\* one per entry of dead_counters
Callbacks ==
  LET live == InOrder(LiveNames)
      dead == InOrder(DOMAIN dead_counters)
  IN [i \in 1..Len(live) |-> [name |-> live[i], value |-> DrainAll(counters[live[i]])]]
       \o [i \in 1..Len(dead) |-> [name |-> dead[i], value |-> dead_counters[dead[i]]]]

\* emit: name.find('#'), name.substr(0, pos), name.substr(pos + 1)
IsTagged(n) == Find(n, "#") # npos
Base(n) == SubSeq(n, 1, Find(n, "#") - 1)
Tag(n) == SubSeq(n, Find(n, "#") + 1, Len(n))
TotalSuffix == <<".", "t", "o", "t", "a", "l">>

\* emit: the Client::count call the lambda makes for one callback
ClientCount(cb) ==
  IF IsTagged(cb.name)
  THEN [name |-> Base(cb.name), value |-> cb.value, tag |-> Tag(cb.name)]
  ELSE [name |-> cb.name, value |-> cb.value, tag |-> << >>]

\* emit: totals[name.substr(0, pos).append(".total")] += value
TotalNames(cbs) ==
  {Base(cbs[i].name) \o TotalSuffix : i \in {j \in 1..Len(cbs) : IsTagged(cbs[j].name)}}

RECURSIVE TotalOf(_, _)
TotalOf(cbs, t) ==
  IF cbs = << >> THEN 0
  ELSE LET cb == Head(cbs)
       IN IF IsTagged(cb.name) /\ Base(cb.name) \o TotalSuffix = t
          THEN (cb.value + TotalOf(Tail(cbs), t)) % CounterModulus
          ELSE TotalOf(Tail(cbs), t)

\* emit: for (auto& entry : totals) client_.count(entry.first, entry.second)
TotalCalls(cbs) ==
  LET names == InOrder(TotalNames(cbs))
  IN [i \in 1..Len(names) |-> [name |-> names[i], value |-> TotalOf(cbs, names[i]),
                               tag |-> << >>]]

\* the Counter objects some vector of counters holds
InCounters ==
  {c \in Counters : \E n \in StatNames : \E i \in 1..Len(counters[n]) : counters[n][i] = c}

\* PublishThread::emit, its counters block: iterate_counters drains every
\* registered Counter and clears dead_counters
EmitCounters ==
  /\ ~fatal
  /\ delivered' = [i \in 1..Len(Callbacks) |-> ClientCount(Callbacks[i])]
                    \o TotalCalls(Callbacks)
  /\ val_' = [c \in Counters |-> IF c \in InCounters THEN 0 ELSE val_[c]]
  /\ dead_counters' = EmptyMap
  /\ since' = [n \in StatNames |-> 0]
  /\ UNCHANGED <<qsbrVars, libVars, fatal, counters, cstate, movefrom, moving, applied>>

\* the stats library used by any number of threads that construct, increment,
\* move and destroy Counter objects while the publisher emits
NextStats ==
  \/ \E c \in Counters, n \in StatNames : CounterCtor(c, n)
  \/ \E c \in Counters, v \in 1..MaxApplied : CounterAdd(c, v)
  \/ \E c \in Counters : CounterDtor(c)
  \/ \E c \in Counters, from \in Counters : CounterMoveRegister(c, from)
  \/ \E c \in Counters : CounterMoveDrain(c)
  \/ \E c \in Counters : CounterMoveAdd(c)
  \/ EmitCounters

SpecStats == Init /\ [][NextStats]_vars

\* ---- stats: validate_name, step by step ---------------------------------------
\* validate_name run on one name, a turn of check_tags's loop being a step.
\* fatal_error_handler is a function pointer: the default handler aborts the
\* process, an installed one may return to its caller.

\* the tags a name is built from: a well-formed one, one with no colon, an
\* empty one, one with a space in its value
GoodTag == <<"t", ":", "v">>
TagForms == {GoodTag, <<"t">>, << >>, <<"t", ":", " ">>}
TagLists == UNION {[1..k -> TagForms] : k \in 0..MaxTags}

\* the tags joined by commas
RECURSIVE Join(_)
Join(ts) ==
  IF ts = << >> THEN << >>
  ELSE IF Len(ts) = 1 THEN Head(ts)
  ELSE Head(ts) \o <<",">> \o Join(Tail(ts))

\* the names validate_name is given: the plain name, and stat#tags
Names == {PlainName} \cup {PlainName \o <<"#">> \o Join(ts) : ts \in TagLists}

\* validate_name is about to be called with any of the names, under either
\* kind of handler
InitValidate ==
  /\ CoreInit
  /\ ParserIdle
  /\ stat_name \in Names
  /\ handler \in {"abort", "return"}
  /\ tags_left = << >>
  /\ vpc = "start"
  /\ called = FALSE

\* split_step(str, ','): result is what precedes the first comma, and str
\* becomes str.substr(p), which begins with that comma; with no comma result
\* is all of str and str becomes empty
split_tag(str) ==
  LET p == Find(str, ",")
  IN IF p # npos
     THEN [result |-> SubSeq(str, 1, p - 1), str |-> SubSeq(str, p, Len(str))]
     ELSE [result |-> str, str |-> << >>]

\* validate_name up to check_tags: name.find('#'), and check_name of the name
\* or of what precedes the '#'
ValidateBegin ==
  /\ vpc = "start"
  /\ LET pos == Find(stat_name, "#")
         bad == check_name(IF pos = npos THEN stat_name ELSE SubSeq(stat_name, 1, pos - 1))
     IN /\ called' = bad
        /\ IF bad /\ handler = "abort"
           THEN vpc' = "aborted" /\ UNCHANGED tags_left
           ELSE IF pos = npos
           THEN vpc' = "done" /\ UNCHANGED tags_left
           ELSE vpc' = "tags" /\ tags_left' = SubSeq(stat_name, pos + 1, Len(stat_name))
  /\ UNCHANGED <<qsbrVars, statsVars, vecVars, ipcVars, parserVars, gaugeVars,
                 stat_name, handler>>

\* check_tags: the test of while (!tags.empty()) and one turn of the loop
CheckTagsTurn ==
  /\ vpc = "tags"
  /\ IF tags_left = << >>
     THEN vpc' = "done" /\ UNCHANGED <<tags_left, called>>
     ELSE LET step == split_tag(tags_left)
              tag == step.result
              pos == Find(tag, ":")
              bad == \/ pos = npos
                     \/ check_name(SubSeq(tag, 1, pos - 1))
                     \/ check_name(SubSeq(tag, pos + 1, Len(tag)))
          IN /\ called' = (called \/ bad)
             /\ IF bad /\ handler = "abort"
                THEN vpc' = "aborted" /\ UNCHANGED tags_left
                ELSE tags_left' = step.str /\ UNCHANGED vpc
  /\ UNCHANGED <<qsbrVars, statsVars, vecVars, ipcVars, parserVars, gaugeVars,
                 stat_name, handler>>

NextValidate == ValidateBegin \/ CheckTagsTurn

SpecValidate == InitValidate /\ [][NextValidate]_vars

\* ---- stats: Gauge ------------------------------------------------------------
\* One Gauge object, assigned to by the threads that own it and drained by the
\* publisher (iterate_gauges).  val_ and max_ are atomics accessed with
\* memory_order_relaxed; each step is one atomic access.

\* operator=(size_t v): val_.store(v)
AssignStore(t, x) ==
  /\ apc[t] = "idle"
  /\ gauge_val_' = x
  /\ assign_v' = [assign_v EXCEPT ![t] = x]
  /\ apc' = [apc EXCEPT ![t] = "load"]
  /\ held' = IF x = held THEN held ELSE Varied
  /\ UNCHANGED <<qsbrVars, statsVars, vecVars, ipcVars, parserVars, nameVars,
                 max_, prev_max, dpc, drain_read>>

\* update_max: uint32_t prev = max_.load()
UpdateMaxLoad(t) ==
  /\ apc[t] = "load"
  /\ prev_max' = [prev_max EXCEPT ![t] = max_]
  /\ apc' = [apc EXCEPT ![t] = "cas"]
  /\ UNCHANGED <<qsbrVars, statsVars, vecVars, ipcVars, parserVars, nameVars,
                 gauge_val_, max_, assign_v, dpc, drain_read, held>>

\* update_max: one test of while (prev < v && !max_.compare_exchange_weak(prev, v));
\* a failed exchange loads max_ into prev, and operator= returns when the
\* loop ends
UpdateMaxCas(t) ==
  /\ apc[t] = "cas"
  /\ IF prev_max[t] < assign_v[t] /\ max_ # prev_max[t]
     THEN /\ prev_max' = [prev_max EXCEPT ![t] = max_]
          /\ UNCHANGED <<max_, apc, assign_v>>
     ELSE /\ max_' = IF prev_max[t] < assign_v[t] THEN assign_v[t] ELSE max_
          /\ prev_max' = [prev_max EXCEPT ![t] = 0]
          /\ assign_v' = [assign_v EXCEPT ![t] = 0]
          /\ apc' = [apc EXCEPT ![t] = "idle"]
  /\ UNCHANGED <<qsbrVars, statsVars, vecVars, ipcVars, parserVars, nameVars,
                 gauge_val_, dpc, drain_read, held>>

\* drain: the argument of the exchange, read() = val_.load()
DrainRead ==
  /\ dpc = "idle"
  /\ drain_read' = gauge_val_
  /\ dpc' = "exchange"
  /\ UNCHANGED <<qsbrVars, statsVars, vecVars, ipcVars, parserVars, nameVars,
                 gauge_val_, max_, apc, assign_v, prev_max, held>>

\* drain: max_.exchange(read()), whose result the publisher reports; a new
\* publish cycle begins
DrainExchange ==
  /\ dpc = "exchange"
  /\ max_' = drain_read
  /\ drain_read' = 0
  /\ dpc' = "idle"
  /\ held' = gauge_val_
  /\ UNCHANGED <<qsbrVars, statsVars, vecVars, ipcVars, parserVars, nameVars,
                 gauge_val_, apc, assign_v, prev_max>>

NextGauge ==
  \/ \E t \in Assigners, x \in GaugeValues : AssignStore(t, x)
  \/ \E t \in Assigners : UpdateMaxLoad(t)
  \/ \E t \in Assigners : UpdateMaxCas(t)
  \/ DrainRead
  \/ DrainExchange

SpecGauge == Init /\ [][NextGauge]_vars

\* ---- small_vector -----------------------------------------------------------

Values == 0..MaxValue

\* emplace_back(v)
emplace_back(v) ==
  /\ Len(pushed) < MaxAppends
  /\ size_' = emplace(N, this, v).size_
  /\ data_' = emplace(N, this, v).data_
  /\ pushed' = Append(pushed, v)
  /\ UNCHANGED <<qsbrVars, statsVars, ipcVars, parserVars, gaugeVars, nameVars>>

\* push_back(value_type&& v) { emplace_back(std::move(v)); }
push_back(v) == emplace_back(v)

\* a client that appends to one small_vector, starting from the empty one
NextVec ==
  \/ \E v \in Values : emplace_back(v)
  \/ \E v \in Values : push_back(v)

SpecVec == Init /\ [][NextVec]_vars

\* ---- ipc: SomeRequest and marshalling ---------------------------------------

\* sizeof of the trivially copyable members of SomeRequest (x86-64)
SizeofQuery == 6
SizeofRequirements == 4
SizeofLocation == 48
SizeofProvider == 8
SizeofHeader == 4
Uint16Modulus == 65536

Max(a, b) == IF a > b THEN a ELSE b

Chars == 1..MaxChar
Strings == UNION {[1..k -> Chars] : k \in 0..MaxStrLen}

\* insert(end(), first, last): emplace_back(*first) for each element
RECURSIVE insert(_, _, _)
insert(cap, sv, v) ==
  IF v = << >> THEN sv ELSE insert(cap, emplace(cap, sv, Head(v)), Tail(v))

\* StringPtr::operator=(std::string_view v): offset_ = data.size(), then the
\* chars and a '\0' are appended to strings_
StringPtrAssign(strings, v) ==
  [offset_ |-> strings.size_ % Uint16Modulus,
   strings_ |-> emplace(StringsN, insert(StringsN, strings, v), 0)]

\* run(): auto& h = req.headers.emplace_back(); h.name = name; h.value = value
\* (h is stack()[n] or the element heap().emplace_back() returned)
AddHeader(name, value) ==
  /\ ipc = "build"
  /\ Len(assigned) < MaxHeaders
  /\ LET hs == emplace(HeadersN, req.headers, NoHeader)
         h == IF is_stack(hs) THEN req.headers.size_ + 1 ELSE Len(hs.data_.d)
         n == StringPtrAssign(req.strings_, name)
         v == StringPtrAssign(n.strings_, value)
     IN req' = [headers |-> [hs EXCEPT !.data_.d[h] =
                                [name |-> n.offset_, value |-> v.offset_]],
                strings_ |-> v.strings_]
  /\ assigned' = Append(assigned, [name |-> name, value |-> value])
  /\ UNCHANGED <<qsbrVars, statsVars, vecVars, parserVars, gaugeVars, nameVars, bytes, req_read, ipc>>

\* the bytes of a uint16_t in memory, and back
U16(n) == <<n % 256, (n \div 256) % 256>>
FromU16(b) == b[1] + 256 * b[2]

\* the bytes of a value-initialised trivially copyable object of n bytes
Zeros(n) == [i \in 1..n |-> 0]

RECURSIVE Flatten(_)
Flatten(ss) == IF ss = << >> THEN << >> ELSE Head(ss) \o Flatten(Tail(ss))

\* the bytes of a Header in memory (two StringPtr, each a uint16_t), and back
HeaderBytes(h) == U16(h.name) \o U16(h.value)
HeaderOf(b) == [name |-> FromU16(SubSeq(b, 1, 2)), value |-> FromU16(SubSeq(b, 3, 4))]

\* ArraySerializer::store of Vector<Header>: write_size(arr.size()), then
\* size * sizeof(Header) bytes from arr.data()
store_headers(arr) ==
  LET size == arr.size_ % Uint16Modulus
  IN U16(size) \o Flatten([i \in 1..size |-> HeaderBytes(arr.data_.d[i])])

\* ArraySerializer::store of StringStorage
store_chars(arr) ==
  LET size == arr.size_ % Uint16Modulus
  IN U16(size) \o SubSeq(arr.data_.d, 1, size)

\* write_item(c, item): item.marshal(ar) with ar(query, requirements,
\* location, providers, headers, strings_); what it appends to c
write_item(item) ==
  Zeros(SizeofQuery) \o Zeros(SizeofRequirements) \o Zeros(SizeofLocation)
    \o U16(0) \o store_headers(item.headers) \o store_chars(item.strings_)

\* std::vector::resize(size)
vector_resize(h, size, dflt) == [i \in 1..size |-> IF i <= Len(h) THEN h[i] ELSE dflt]

\* small_vector::resize(size)
resize(cap, sv, size, dflt) ==
  [size_ |-> size,
   data_ |-> IF is_stack(sv) /\ size < cap
             THEN [sv.data_ EXCEPT !.d =
                     [i \in 1..cap |->
                        IF i - 1 >= Min(size, sv.size_) /\ i - 1 < Max(size, sv.size_)
                        THEN dflt ELSE @[i]]]
             ELSE IF is_stack(sv)
             THEN [kind |-> "heap", d |-> vector_resize(convert_to_heap(sv), size, dflt)]
             ELSE [sv.data_ EXCEPT !.d = vector_resize(@, size, dflt)]]

\* buf.read(arr.data(), size * sizeof(value_type)): the elements land in
\* d[0] .. d[size - 1]
load(sv, elems) ==
  [sv EXCEPT !.data_.d = [i \in 1..Len(@) |-> IF i <= Len(elems) THEN elems[i] ELSE @[i]]]

\* read_item(c, item): ArraySerializer::load of providers, headers and
\* strings_ after the three trivially copyable members; c holds what
\* write_item wrote, so no read runs short
read_item(c, item) ==
  LET p0 == SizeofQuery + SizeofRequirements + SizeofLocation
      np == FromU16(SubSeq(c, p0 + 1, p0 + 2))
      p1 == p0 + 2 + np * SizeofProvider
      nh == FromU16(SubSeq(c, p1 + 1, p1 + 2))
      hs == [i \in 1..nh |->
               HeaderOf(SubSeq(c, p1 + 2 + SizeofHeader * (i - 1) + 1,
                               p1 + 2 + SizeofHeader * i))]
      p2 == p1 + 2 + nh * SizeofHeader
      ns == FromU16(SubSeq(c, p2 + 1, p2 + 2))
      cs == SubSeq(c, p2 + 3, p2 + 2 + ns)
  IN [headers |-> load(resize(HeadersN, item.headers, nh, NoHeader), hs),
      strings_ |-> load(resize(StringsN, item.strings_, ns, 0), cs)]

\* run(): marshalling::write_item(bytes, req)
WriteItem ==
  /\ ipc = "build"
  /\ bytes' = bytes \o write_item(req)
  /\ ipc' = "written"
  /\ UNCHANGED <<qsbrVars, statsVars, vecVars, parserVars, gaugeVars, nameVars, req, req_read, assigned>>

\* run(): SomeRequest req; marshalling::read_item(bytes, req)
ReadItem ==
  /\ ipc = "written"
  /\ req_read' = read_item(bytes, req_read)
  /\ ipc' = "read"
  /\ UNCHANGED <<qsbrVars, statsVars, vecVars, parserVars, gaugeVars, nameVars, req, bytes, assigned>>

\* what may follow a buffer that is read past its end, up to the next '\0'
Beyond == {<< >>} \cup {<<c>> : c \in Chars}

OutOfRange == <<-1>>

\* the string a StringPtr with this offset_ compares as: operator* takes
\* &data.at(offset_), and the comparison reads up to the first '\0'; reading
\* past the end of the storage is undefined and may find any chars
CString(strings, offset) ==
  IF ~(offset < strings.size_)
  THEN {OutOfRange}
  ELSE LET d == strings.data_.d
           ends == {z \in (offset + 1)..Len(d) : d[z] = 0}
       IN IF ends # {}
          THEN {SubSeq(d, offset + 1, (CHOOSE z \in ends : \A y \in ends : z <= y) - 1)}
          ELSE {SubSeq(d, offset + 1, Len(d)) \o t : t \in Beyond}

\* run() for requests of any number of headers
NextIpc ==
  \/ \E name \in Strings, value \in Strings : AddHeader(name, value)
  \/ WriteItem
  \/ ReadItem

SpecIpc == Init /\ [][NextIpc]_vars

\* ---- parser: parse_person ---------------------------------------------------

IsDigit(c) == c \in {"0", "1", "2", "3", "4", "5", "6", "7", "8", "9"}

DigitValue(c) ==
  CASE c = "0" -> 0 [] c = "1" -> 1 [] c = "2" -> 2 [] c = "3" -> 3 [] c = "4" -> 4
    [] c = "5" -> 5 [] c = "6" -> 6 [] c = "7" -> 7 [] c = "8" -> 8 [] c = "9" -> 9

\* the value of a string of decimal digits
RECURSIVE Decimal(_)
Decimal(digits) ==
  IF digits = << >> THEN 0
  ELSE 10 * Decimal(SubSeq(digits, 1, Len(digits) - 1)) + DigitValue(digits[Len(digits)])

\* try_to<uint32_t>: std::from_chars converts the longest prefix of the
\* segment that is made of digits and reports no error if there is one; where
\* it stopped (r.ptr) is not looked at. A prefix of at most MaxPathLen digits
\* is below 2^32, so result_out_of_range does not arise.
try_to_uint32(segment) ==
  LET matched == {k \in 0..Len(segment) : \A i \in 1..k : IsDigit(segment[i])}
      k == CHOOSE m \in matched : \A o \in matched : o <= m
  IN IF k = 0
     THEN [has_value |-> FALSE, value |-> 0]
     ELSE [has_value |-> TRUE, value |-> Decimal(SubSeq(segment, 1, k))]

\* remove_prefix(tgt, prefix): what it returns and what tgt is afterwards
remove_prefix(tgt, prefix) ==
  IF Len(tgt) >= Len(prefix) /\ SubSeq(tgt, 1, Len(prefix)) = prefix
  THEN [returns |-> TRUE, tgt |-> SubSeq(tgt, Len(prefix) + 1, Len(tgt))]
  ELSE [returns |-> FALSE, tgt |-> tgt]

\* split_step(tgt, delimiter): what it returns and what tgt is afterwards
split_step(tgt, delimiter) ==
  LET it == Find(tgt, delimiter)
  IN IF it = npos
     THEN [returns |-> tgt, tgt |-> << >>]
     ELSE [returns |-> SubSeq(tgt, 1, it - 1), tgt |-> SubSeq(tgt, it + 1, Len(tgt))]

\* start_parse(parse, target, prefix): the ParseContext, with the PathParse
\* it refers to held in path and ok
start_parse(path, target, prefix) ==
  LET r == remove_prefix(path, prefix)
  IN [path |-> r.tgt, ok |-> r.returns, target |-> target]

\* optional(setter) and the default, required
optional(member) == [member |-> member, required |-> FALSE]
required(member) == [member |-> member, required |-> TRUE]

\* faulty variant of parse_segment for a StringField: an empty segment is let
\* through
parse_segment_string_lenient(ctx, fld, segment) ==
  IF ctx.ok /\ segment # << >>
  THEN [ctx EXCEPT !.target[fld.member] = segment]
  ELSE ctx

\* parse_segment(ctx, StringField fld, segment)
parse_segment_string(ctx, fld, segment) ==
  IF ctx.ok /\ segment # << >>
  THEN [ctx EXCEPT !.target[fld.member] = segment]
  ELSE IF fld.required
  THEN [ctx EXCEPT !.ok = FALSE]
  ELSE ctx

\* faulty variant of parse_segment for an IntegralField: the field is taken
\* to be required
parse_segment_integral_required(ctx, fld, segment) ==
  IF ctx.ok /\ segment # << >>
  THEN LET v == try_to_uint32(segment)
       IN IF v.has_value
          THEN [ctx EXCEPT !.target[fld.member] = v.value]
          ELSE [ctx EXCEPT !.ok = FALSE]
  ELSE [ctx EXCEPT !.ok = FALSE]

\* parse_segment(ctx, IntegralField fld, segment)
parse_segment_integral(ctx, fld, segment) ==
  IF ctx.ok /\ segment # << >>
  THEN LET v == try_to_uint32(segment)
       IN IF v.has_value
          THEN [ctx EXCEPT !.target[fld.member] = v.value]
          ELSE [ctx EXCEPT !.ok = FALSE]
  ELSE IF fld.required
  THEN [ctx EXCEPT !.ok = FALSE]
  ELSE ctx

\* operator/(ctx, fld) for a StringField and for an IntegralField
slash_string(ctx, fld) ==
  LET s == split_step(ctx.path, "/")
  IN parse_segment_string([ctx EXCEPT !.path = s.tgt], fld, s.returns)

slash_integral(ctx, fld) ==
  LET s == split_step(ctx.path, "/")
  IN parse_segment_integral([ctx EXCEPT !.path = s.tgt], fld, s.returns)

\* parse_person(person, path): what it returns and what person is afterwards
parse_person(p, path) ==
  LET ctx == slash_integral(
               slash_string(
                 slash_string(start_parse(path, p, <<"/">>), required("first_name_")),
                 required("last_name_")),
               optional("age_"))
  IN [returns |-> ctx.ok, person |-> ctx.target]

\* run_parse(txt): bool ok = parse_person(p, txt)
RunParse ==
  /\ ok = "none"
  /\ ok' = IF parse_person(person, txt).returns THEN "true" ELSE "false"
  /\ person' = parse_person(person, txt).person
  /\ UNCHANGED <<qsbrVars, statsVars, vecVars, ipcVars, gaugeVars, nameVars, txt, prior>>

NextParser == RunParse

SpecParser == InitParser /\ [][NextParser]_vars

\* ---- claims ----------------------------------------------------------------

\* a step of reader r that dereferences the pointer it loaded
Dereferences(r) == rpc[r] = "deref" /\ rpc'[r] = "on_quiesce"

\* C1: under threads_test (readers: load a slot pointer, dereference it,
\* on_quiesce; writer: exchange, destroy_later, garbage_collect) no reader
\* ever dereferences a string that garbage_collect has destroyed.
C1_NoUseAfterFree ==
  [][\A r \in Readers : Dereferences(r) => ptr[r] \notin destroyed]_vars

\* the strings a step destroys
DestroyedNow == destroyed' \ destroyed

\* a step that ends a garbage_collect call of qsbr.h
GcReturns == wpc = "scan" /\ wpc' = "idle"

\* min_quiesced_epoch has finished its loop and gc_epoch holds its result
ScanComplete == wpc = "scan" /\ iter > Len(readers_)

\* C2: garbage_collect never destroys an entry while a registered reader's
\* stored epoch is less than the entry's retirement epoch.
C2_NoDestroyBeforeQuiesce ==
  [][\A i \in 1..Len(garbage_) :
       garbage_[i].item \in DestroyedNow =>
         \A r \in Registered : local_[r] >= garbage_[i].epoch]_vars

\* C3: the minimum garbage_collect works with is the minimum of the stored
\* epochs of all registered readers (each read at some moment of the scan, so
\* between the minimum at the call and the minimum now), and it is the
\* maximum-uint64 sentinel exactly when no reader is registered.
C3_MinOverAllReaders ==
  ScanComplete =>
    /\ call.min <= gc_epoch
    /\ gc_epoch <= MinOver(Registered)
    /\ (gc_epoch = EpochMax <=> Registered = {})

\* C4: with no reader registered, one garbage_collect call destroys every
\* entry retired before it: pending_garbage() is 0 when it returns.
C4_NoReaderFastPath ==
  [][(GcReturns /\ Len(readers_) = 0) => Len(garbage_') = 0]_vars

\* C5: whatever the number n of registered readers, when they keep calling
\* on_quiesce and the writer keeps calling garbage_collect, pending garbage
\* is eventually collected: from pending_garbage() > 0 with n readers it
\* becomes 0 (unless the registry changes or the process has aborted).
C5_GarbageEventuallyCollected ==
  \A n \in 0..NumReaders :
    (Len(garbage_) > 0 /\ Len(readers_) = n)
      ~> (Len(garbage_) = 0 \/ Len(readers_) # n \/ wpc = "aborted")

\* C6: with exactly one registered reader whose stored epoch was greater than
\* the retirement epoch of a pending entry when garbage_collect was called,
\* that call destroys the entry.
C6_CollectedAfterQuiesce ==
  [][(GcReturns /\ call.n = 1) =>
       \A i \in 1..Len(garbage_) :
         call.min > garbage_[i].epoch => garbage_[i].item \in destroyed']_vars

\* C7: with exactly one registered reader whose stored epoch equals the
\* retirement epoch of a pending entry, no step (so no garbage_collect call,
\* however many are made) removes that entry from the queue.
C7_PendingUntilQuiesce ==
  [][\A i \in 1..Len(garbage_) :
       (Len(readers_) = 1 /\ local_[readers_[1]] = garbage_[i].epoch) =>
         /\ garbage_[i].item \in Items(garbage_')
         /\ Len(garbage_') >= 1]_vars

\* two garbage_collect calls have returned since the front entry was retired
\* at the epoch the only registered reader has stored, and it is still pending
C7_Witness ==
  /\ wpc = "idle"
  /\ Len(readers_) = 1
  /\ Len(garbage_) >= 1
  /\ local_[readers_[1]] = garbage_[1].epoch
  /\ global_epoch_ >= garbage_[1].epoch + 2

\* C8: in the README.txt variant the assert holds whenever it is reached:
\* a minimum computed from at least one reader is at most the pre-advance
\* epoch that fetch_add returned.
C8_AssertNeverFails ==
  (wpc = "assert" /\ gc_epoch # EpochMax) => gc_epoch <= global_epoch

\* the assert is reached with a minimum taken from a reader that has
\* quiesced since it registered
C8_Witness ==
  /\ wpc = "assert"
  /\ gc_epoch # EpochMax
  /\ gc_epoch > ReadmeInitialEpoch

\* C9: the global epoch counter never decreases, and the pre-advance value a
\* garbage_collect call captured and the values on_quiesce loaded are values
\* it has passed.
C9_EpochMonotonic ==
  /\ [][global_epoch_' >= global_epoch_]_vars
  /\ [](/\ global_epoch <= global_epoch_
        /\ \A r \in Readers : loaded[r] <= global_epoch_)

\* the counter has been advanced twice
C9_Witness == global_epoch_ >= InitialEpoch + 2 /\ wpc = "scan"

InsideRegistry ==
  {r \in Readers : rpc[r] \in {"ctor", "dtor"}} \cup (IF wpc = "scan" THEN {Writer} ELSE {})

\* C11: create_reader, the ReaderHandle deleter and the reader scan of
\* garbage_collect are mutually exclusive: at most one thread is inside
\* readers_ at any time, and it is the holder of readers_lock_.
C11_RegistryMutex ==
  /\ Cardinality(InsideRegistry) <= 1
  /\ InsideRegistry # {} => InsideRegistry = {readers_lock_}

\* the scan stands at a node of the list while a thread is registered that
\* could destroy its handle
C11_Witness == wpc = "scan" /\ iter <= Len(readers_) /\ \E r \in Readers : rpc[r] = "loop"

\* C12: on_quiesce and destroy_later never take readers_lock_: whoever holds
\* the lock, a reader in its loop can start on_quiesce, a started on_quiesce
\* can finish and a destroy_later call can run, and these steps leave the
\* lock as it is.
C12_QuiesceAndRetireLockFree ==
  wpc # "aborted" =>
    /\ \A r \in Readers :
         /\ rpc[r] = "loop" =>
              ENABLED (QuiesceLoad(r, "loop") /\ readers_lock_' = readers_lock_)
         /\ rpc[r] = "store" =>
              ENABLED (QuiesceStore(r) /\ readers_lock_' = readers_lock_)
    /\ wpc = "retire" =>
         ENABLED (DestroyLater("idle") /\ readers_lock_' = readers_lock_)

\* an on_quiesce call has loaded the epoch that the garbage_collect call now
\* in its reader scan (holding the lock) advanced to
C12_Witness ==
  /\ wpc = "scan"
  /\ iter <= Len(readers_)
  /\ \E r \in Readers : rpc[r] = "store" /\ loaded[r] = global_epoch_

\* C13: from the return of create_reader until deregistration a reader's
\* stored epoch is a value the counter has held: at most the current global
\* epoch, and at least the counter's value when create_reader took the lock
\* (which is at least its value when create_reader began).
C13_StoredEpochInRange ==
  \A r \in Registered : began[r] <= local_[r] /\ local_[r] <= global_epoch_

\* a reader registered after the first advance has quiesced since, and the
\* counter has moved on again
C13_Witness ==
  \E r \in Registered :
    InitialEpoch < began[r] /\ began[r] < local_[r] /\ local_[r] < global_epoch_

\* a step of reader r that ends an on_quiesce call
QuiesceReturns(r) == rpc[r] = "store" /\ rpc'[r] = "loop"

Threshold == gc_epoch - kLag

\* C15: when garbage_collect trims with threshold t, the entries it destroys
\* are exactly the pending entries retired at an epoch below t, and the
\* queue it leaves is the old queue without them: every entry retired at t
\* or later is still pending, in its place.
C15_TrimExact ==
  [][(GcReturns /\ ShouldTrim(gc_epoch, global_epoch)) =>
       /\ DestroyedNow =
            {garbage_[i].item : i \in {j \in 1..Len(garbage_) : garbage_[j].epoch < Threshold}}
       /\ garbage_' = SelectSeq(garbage_, LAMBDA e : e.epoch >= Threshold)]_vars

\* a trim is about to run on a queue that holds an entry below the threshold
\* and an entry at or above it
C15_Witness ==
  /\ ScanComplete
  /\ ShouldTrim(gc_epoch, global_epoch)
  /\ \E i \in 1..Len(garbage_) : garbage_[i].epoch < Threshold
  /\ \E i \in 1..Len(garbage_) : garbage_[i].epoch >= Threshold

\* C16: the pending queue is in retirement order (the writer's strings are
\* numbered in the order it retires them) and its retirement epochs are
\* non-decreasing from front to back.
C16_QueueOrdered ==
  \A i, j \in 1..Len(garbage_) :
    i < j => /\ garbage_[i].item < garbage_[j].item
             /\ garbage_[i].epoch <= garbage_[j].epoch

\* two entries retired at different epochs are pending
C16_Witness ==
  /\ Len(garbage_) = 2
  /\ garbage_[1].epoch < garbage_[2].epoch

\* a step that is a destroy_later call
Retires == wpc = "retire" /\ wpc' # "retire"

\* C17: destroy_later tags the new entry with the epoch the counter has at
\* the call: every pending entry's epoch is at most the current global
\* epoch, and an entry retired after n returned garbage_collect calls
\* carries the initial epoch plus n.
C17_RetireTag ==
  /\ [](\A i \in 1..pending_garbage : garbage_[i].epoch <= generation)
  /\ [][Retires =>
          /\ pending_garbage' = pending_garbage + 1
          /\ garbage_'[pending_garbage'].epoch = generation
          /\ garbage_'[pending_garbage'].epoch = InitialEpoch + completed]_vars

\* the newest entry was retired after two garbage_collect calls, and a
\* third call has returned since
C17_Witness ==
  /\ wpc = "idle"
  /\ pending_garbage >= 1
  /\ garbage_[pending_garbage].epoch = InitialEpoch + 2
  /\ completed = 3

\* a step in which the writer enters garbage_collect (qsbr.h)
GcEnters == wpc = "idle" /\ wpc' \in {"scan", "aborted"}

\* C18: only garbage_collect changes the global epoch counter: a step that
\* changes it is the fetch_add of a garbage_collect call and adds 1, and
\* between calls the counter is the initial epoch plus the number of calls
\* that have returned, whether they trimmed or not; no step of a reader and
\* no destroy_later changes it.
C18_OnlyGcAdvances ==
  /\ [][generation' # generation =>
          /\ GcEnters
          /\ generation' = generation + 1
          /\ rpc' = rpc]_vars
  /\ [](wpc \in {"idle", "retire"} => generation = InitialEpoch + completed)

\* a garbage_collect call that trims nothing is about to return after a call
\* that trimmed
C18_Witness ==
  /\ ScanComplete
  /\ ~ShouldTrim(gc_epoch, global_epoch)
  /\ destroyed # {}
  /\ pending_garbage >= 1

\* steps of reader r in which create_reader links its node and in which the
\* deleter removes it
Registers(r) == rpc[r] = "ctor" /\ rpc'[r] = "loop"
Deregisters(r) == rpc[r] = "dtor" /\ rpc'[r] = "idle"

\* C19: destroying a ReaderHandle removes that reader's node from the
\* registry and no other, create_reader adds one node, and in both cases
\* every other registered reader stays registered with its stored epoch
\* unchanged.
C19_RegistryFrame ==
  [][\A r \in Readers :
       /\ Registers(r) =>
            /\ r \notin Registered
            /\ Registered' = Registered \cup {r}
            /\ Len(readers_') = Len(readers_) + 1
            /\ \A o \in Registered : local_'[o] = local_[o]
       /\ Deregisters(r) =>
            /\ r \in Registered
            /\ Registered' = Registered \ {r}
            /\ Len(readers_') = Len(readers_) - 1
            /\ \A o \in Registered \ {r} : local_'[o] = local_[o]]_vars

\* the deleter of the reader at the back of the list is about to remove it
\* while the reader at the front has quiesced at a later epoch
C19_Witness ==
  /\ Len(readers_) = 2
  /\ rpc[readers_[2]] = "dtor"
  /\ local_[readers_[1]] > InitialEpoch

\* the Client::count calls of a sequence that deliver name n
CallsFor(calls, n) ==
  LET key == ClientCount([name |-> n, value |-> 0])
  IN {i \in 1..Len(calls) : calls[i].name = key.name /\ calls[i].tag = key.tag}

\* C20: in each publish cycle every counter name (one with an entry in
\* counters or in dead_counters) is delivered to the client exactly once, and
\* the value is the sum of the increments applied since the previous cycle
\* to the Counter objects registered under that name, alive or destroyed.
C20_OncePerNameWithSum ==
  [][EmitCounters =>
       \A n \in LiveNames \cup DOMAIN dead_counters :
         /\ Cardinality(CallsFor(delivered', n)) = 1
         /\ \A i \in CallsFor(delivered', n) : delivered'[i].value = since[n]]_vars

\* a name that ends in ".total"
EndsInTotal(n) ==
  Len(n) >= 6 /\ SubSeq(n, Len(n) - 5, Len(n)) = <<".", "t", "o", "t", "a", "l">>

\* the name n clashes with a registered name: n is "base.total" and a tagged
\* "base#..." is registered, or n is a tagged "base#..." and "base.total" is
Clash(n) ==
  \/ /\ Find(n, "#") = npos
     /\ EndsInTotal(n)
     /\ \E k \in Keys : /\ Find(k, "#") # npos
                        /\ SubSeq(k, 1, Find(k, "#") - 1) = SubSeq(n, 1, Len(n) - 6)
  \/ /\ Find(n, "#") # npos
     /\ \E k \in Keys : /\ Find(k, "#") = npos
                        /\ EndsInTotal(k)
                        /\ SubSeq(k, 1, Len(k) - 6) = SubSeq(n, 1, Find(n, "#") - 1)

\* C21: registering a name that ends in ".total" while a tagged stat with the
\* same base name is registered, or a tagged name while "base.total" is
\* registered, calls the fatal error handler, whichever came first.
C21_TotalClashIsFatal ==
  [][\A c \in Counters, n \in StatNames :
       (CounterCtor(c, n) /\ Clash(n)) => fatal']_vars

\* the handler was called for ".total" after the tagged name was registered
C21_Witness == fatal /\ TaggedName \in Keys /\ TotalName \notin Keys

\* C22: after n appends to an empty small_vector, size() is n and element i
\* is the i-th appended value for every i < n, on the stack and on the heap.
C22_AppendedInOrder ==
  /\ size_ = Len(pushed)
  /\ \A i \in 0..(size_ - 1) : At(i) = pushed[i + 1]

\* C23: write_item of a SomeRequest followed by read_item into a fresh
\* SomeRequest gives the same number of headers and, for each header, the
\* name and value strings that the original was given.
C23_RoundTrip ==
  ipc = "read" =>
    /\ req_read.headers.size_ = Len(assigned)
    /\ \A i \in 1..Min(Len(assigned), req_read.headers.size_) :
         /\ CString(req_read.strings_, Index(req_read.headers, i - 1).name)
              = {assigned[i].name}
         /\ CString(req_read.strings_, Index(req_read.headers, i - 1).value)
              = {assigned[i].value}

\* the path starts with "/"
StartsWithSlash == Len(txt) >= 1 /\ txt[1] = "/"

\* the pieces of s between its slashes
RECURSIVE Segments(_)
Segments(s) ==
  IF \E i \in 1..Len(s) : s[i] = "/"
  THEN LET i == CHOOSE j \in 1..Len(s) : s[j] = "/" /\ \A k \in 1..(j - 1) : s[k] # "/"
       IN <<SubSeq(s, 1, i - 1)>> \o Segments(SubSeq(s, i + 1, Len(s)))
  ELSE <<s>>

\* the i-th segment of the path after its leading "/", empty when missing
Segment(i) ==
  LET segs == IF StartsWithSlash THEN Segments(SubSeq(txt, 2, Len(txt))) ELSE << >>
  IN IF i <= Len(segs) THEN segs[i] ELSE << >>

\* C24: parse_person returns false when the path does not start with "/" or
\* the first-name or the last-name segment is missing or empty.
C24_RequiredNames ==
  (ok # "none" /\ (~StartsWithSlash \/ Segment(1) = << >> \/ Segment(2) = << >>))
    => ok = "false"

\* parse_person has returned false for a path with a first name only
C24_Witness == ok = "false" /\ txt = <<"/", "a">>

\* C25: parse_person returns true when the path starts with "/", first and
\* last name are non-empty and the age segment is absent or empty; the names
\* are set from the segments and the age is what it was before the call.
C25_AgeOptional ==
  (/\ ok # "none"
   /\ StartsWithSlash
   /\ Segment(1) # << >>
   /\ Segment(2) # << >>
   /\ Segment(3) = << >>)
    => /\ ok = "true"
       /\ person.first_name_ = Segment(1)
       /\ person.last_name_ = Segment(2)
       /\ person.age_ = prior.age_

\* parse_person has returned true for "/a/1" and for a Person of age 0
C25_Witness == ok = "true" /\ txt = <<"/", "a", "/", "1">> /\ prior.age_ = 0 /\ person.age_ = 0

\* C26: parse_person returns false when the age segment is non-empty and is
\* not, in its entirety, an unsigned decimal integer.
C26_AgeAllDigits ==
  (/\ ok # "none"
   /\ StartsWithSlash
   /\ Segment(3) # << >>
   /\ \E i \in 1..Len(Segment(3)) : ~IsDigit(Segment(3)[i]))
    => ok = "false"

\* C27: a garbage_collect call whose minimum counted reader epoch equals the
\* pre-advance epoch destroys nothing, however old the pending entries are;
\* a step destroys only when that minimum is strictly less than the
\* pre-advance epoch.
C27_NoTrimWhenCaughtUp ==
  [][/\ (GcReturns /\ gc_epoch = global_epoch) => UNCHANGED <<garbage_, destroyed>>
     /\ (DestroyedNow # {} \/ Len(garbage_') < Len(garbage_)) =>
          (wpc = "scan" /\ gc_epoch < global_epoch)]_vars

\* the scan has ended with a minimum equal to the pre-advance epoch while an
\* entry retired more than the lag before it is pending
C27_Witness ==
  /\ ScanComplete
  /\ gc_epoch = global_epoch
  /\ \E i \in 1..Len(garbage_) : garbage_[i].epoch < Threshold

\* C28: an entry retired at epoch e is destroyed only by a garbage_collect
\* call whose pre-advance epoch is at least e + K + 2, K being the lag (kLag
\* in qsbr.h): K + 2 epoch advances lie between retirement and destruction.
C28_LagBeforeDestroy ==
  [][\A i \in 1..Len(garbage_) :
       garbage_[i].item \in DestroyedNow =>
         /\ wpc = "scan"
         /\ global_epoch >= garbage_[i].epoch + kLag + 2
         /\ global_epoch_ >= garbage_[i].epoch + kLag + 2]_vars

\* a trim is about to destroy an entry retired exactly K + 2 epochs before the
\* pre-advance epoch of the call
C28_Witness ==
  /\ ScanComplete
  /\ ShouldTrim(gc_epoch, global_epoch)
  /\ \E i \in 1..Len(garbage_) :
       /\ garbage_[i].epoch < Threshold
       /\ global_epoch = garbage_[i].epoch + kLag + 2

\* C29: in garbage_collect of qsbr.h (fetch_add first, the scan after it,
\* both under the lock) the minimum the scan obtains from at least one reader
\* never exceeds the pre-advance epoch that fetch_add returned.
C29_ScanMinAtMostPreAdvance ==
  (ScanComplete /\ gc_epoch # EpochMax) => gc_epoch <= global_epoch

\* C30: a reader's stored epoch never decreases while the reader is
\* registered: no on_quiesce call stores a value smaller than the one stored
\* before it, although its load and its store are two steps.
C30_StoredEpochMonotonic ==
  [][\A r \in Readers :
       /\ (r \in Registered /\ r \in Registered') => local_'[r] >= local_[r]
       /\ QuiesceReturns(r) => local_'[r] >= local_[r]]_vars

\* a registered reader has returned from an on_quiesce call that stored a
\* later epoch than the one its constructor stored
C30_Witness ==
  \E r \in Registered : rpc[r] = "loop" /\ local_[r] > began[r] /\ began[r] > InitialEpoch

\* the objects that have been passed to destroy_later: every string the writer
\* has exchanged out of the map, but the one it still holds in prev
Retired == (InitialObject..(map - 1)) \ {prev}

\* C31: every object passed to destroy_later is either pending in garbage_ or
\* destroyed, never both and never neither; no object has two entries in the
\* queue, so none is destroyed twice; and pending_garbage() is the number of
\* objects retired minus the number destroyed.
C31_PendingXorDestroyed ==
  /\ \A o \in Retired : (o \in Items(garbage_)) # (o \in destroyed)
  /\ destroyed \subseteq Retired
  /\ \A i, j \in 1..Len(garbage_) : garbage_[i].item = garbage_[j].item => i = j
  /\ pending_garbage = Cardinality(Retired) - Cardinality(destroyed)

\* one retired object has been destroyed while another is still pending
C31_Witness == destroyed # {} /\ garbage_ # << >> /\ Cardinality(Retired) >= 2

\* the thread t, the writer being at w and the readers at p, is inside an
\* operation that holds readers_lock_ and whose remaining steps end with the
\* lock_guard's release
Releasing(t, w, p) ==
  IF t = Writer THEN w = "scan" ELSE p[t] \in {"ctor", "dtor"}

\* the number of turns the trim loop of the returning garbage_collect makes
TrimIterations == Len(garbage_) - Len(garbage_')

C32_RunningCallsTerminate ==
  [][wpc' # "aborted" =>
       /\ (readers_lock_' # readers_lock_ /\ readers_lock_' # Unlocked)
            => readers_lock_ = Unlocked
       /\ readers_lock_' # Unlocked => Releasing(readers_lock_', wpc', rpc')
       /\ GcReturns => TrimIterations \in 0..pending_garbage]_vars

\* a step of garbage_collect or of destroy_later, the writer's operations
WriterOperation == DestroyLater("idle") \/ GcLock("idle") \/ GcScan \/ GcTrim

\* a step of on_quiesce called by reader r on its handle
OnQuiesce(r) == QuiesceLoad(r, "loop") \/ QuiesceStore(r)

\* a step of create_reader or of the handle's deleter on thread r
RegistryOperation(r) ==
  CreateReaderLock(r) \/ CreateReaderDone(r) \/ DeleterLock(r) \/ DeleterRemove(r)

\* C33: garbage_collect and destroy_later leave the registered readers and
\* every stored epoch as they were; on_quiesce changes nothing but the calling
\* reader's stored epoch; create_reader, on_quiesce and the deleter leave the
\* garbage queue (and what has been destroyed) as it was.
C33_Frames ==
  [][/\ WriterOperation => readers_' = readers_ /\ local_' = local_
     /\ \A r \in Readers :
          OnQuiesce(r) =>
            /\ \A q \in Readers \ {r} : local_'[q] = local_[q]
            /\ UNCHANGED <<readers_, garbage_, destroyed, global_epoch_, readers_lock_>>
     /\ \A r \in Readers :
          RegistryOperation(r) => UNCHANGED <<garbage_, destroyed>>]_vars

\* a reader is about to store a newer epoch while the other reader is
\* registered with an older one, garbage is pending and a scan is under way
C33_Witness ==
  /\ wpc = "scan"
  /\ garbage_ # << >>
  /\ Len(readers_) = NumReaders
  /\ \E r \in Readers :
       /\ rpc[r] = "store"
       /\ loaded[r] > local_[r]
       /\ \E q \in Readers \ {r} : local_[q] < loaded[r]

\* what is buffered for the name n: val_ of the Counter objects registered
\* under it, the value a move constructor has drained and not yet added, and
\* the entry of dead_counters
RECURSIVE Held(_, _, _)
Held(vec, vals, mv) ==
  IF vec = << >> THEN 0 ELSE vals[Head(vec)] + mv[Head(vec)] + Held(Tail(vec), vals, mv)

Buffered(n, cs, vals, mv, dead) ==
  (Held(cs[n], vals, mv) + (IF n \in DOMAIN dead THEN dead[n] ELSE 0)) % CounterModulus

\* this step is a publish cycle: of the steps of the library, emit is the one
\* that leaves the registrations, the Counter objects' lives, the values in
\* transit and the increments applied as they are
IsEmit == UNCHANGED <<counters, cstate, moving, applied, fatal>>

\* the values Client::count receives for the name n in the publish cycle that
\* this step is, from the calls the lambda of emit makes per callback
DeliveredNow(n) ==
  LET cbs == Callbacks
      value == [i \in 1..Len(cbs) |-> delivered'[i].value]
  IN SumOver(value, {i \in 1..Len(cbs) : cbs[i].name = n}) % CounterModulus

Quiet == dpc = "idle" /\ \A t \in Assigners : apc[t] = "idle"

\* C35: whenever no assignment and no drain is in progress, max_ is at least
\* val_; and the value a drain reports (the max_ it exchanges out) is not below
\* the value the gauge has held all through the cycle that the drain ends.
C35_MaxAtLeastValue ==
  /\ [](Quiet => max_ >= gauge_val_)
  /\ [][(DrainExchange /\ held # Varied) => max_ >= held]_vars

\* the pieces of s between its commas
RECURSIVE CommaSplit(_)
CommaSplit(s) ==
  LET p == Find(s, ",")
  IN IF p = npos THEN <<s>>
     ELSE <<SubSeq(s, 1, p - 1)>> \o CommaSplit(SubSeq(s, p + 1, Len(s)))

\* name:value with no space, colon, bar or @ in the name or in the value
WellFormedTag(t) ==
  \E k \in 1..Len(t) :
    /\ t[k] = ":"
    /\ \A i \in (1..Len(t)) \ {k} : t[i] \notin {" ", ":", "|", "@"}

\* the name carries two or more comma-separated well-formed tags
TwoOrMoreTags(n) ==
  LET pos == Find(n, "#")
      ts == CommaSplit(SubSeq(n, pos + 1, Len(n)))
  IN /\ pos # npos
     /\ \A i \in 1..(pos - 1) : n[i] \notin {" ", ":", "|", "@"}
     /\ Len(ts) >= 2
     /\ \A i \in 1..Len(ts) : WellFormedTag(ts[i])

\* C36: for a name with two or more comma-separated well-formed tags,
\* validate_name never calls fatal_error_handler; and validate_name
\* terminates on every name: every turn of check_tags's loop that does not
\* leave the loop shortens what is left of the tags.
C36_TaggedNamesPass ==
  /\ [](TwoOrMoreTags(stat_name) => ~called /\ vpc # "aborted")
  /\ [][(vpc = "tags" /\ vpc' = "tags") => Len(tags_left') < Len(tags_left)]_vars

\* C37: back() on a non-empty small_vector is the value appended most
\* recently, which is the element at index size() - 1, in stack storage and in
\* heap storage.
C37_BackIsLastAppended ==
  size_ > 0 => (back = pushed[Len(pushed)] /\ back = At(size_ - 1))

====
